---- MODULE Spec2Model ----
(***************************************************************************)
(* Laser Clock (src/laserclock.cpp): the point buffer, the path            *)
(* interpolator, the glyph library, the clock-face composer and the        *)
(* refresh scheduler of main().                                            *)
(*                                                                         *)
(* Arithmetic.  DrawLineTo computes in C `float`.  The operators of the    *)
(* first section evaluate those expressions as IEEE-754 binary32 does,     *)
(* one rounding (to nearest, ties to even) per operation, which is what    *)
(* the documented build (g++ without optimisation, line 9) produces.       *)
(* A float is held as an exact rational: an integer numerator over a       *)
(* power of two.                                                           *)
(***************************************************************************)
EXTENDS Integers, Naturals, Sequences, FiniteSets, TLC

(***************************************************************************)
(* Bounds of the model.                                                    *)
(***************************************************************************)
\* Capacity of vector_list.  The program's value is 10000 (line 43); the
\* model keeps the name and scales the capacity down so that a handful of
\* pen moves fills the buffer.
MAX_POINTS == 14

\* Number of API calls made on one frame by the drawing harness.
MaxOps == 2

\* Number of seconds the simulated wall clock may advance.
MaxTicks == 3

\* Saturation value of the per-frame write counters.
MaxCount == 2

(***************************************************************************)
(* Program constants.                                                      *)
(***************************************************************************)
\* Largest device coordinate (lines 91-100).
COORD_MAX == 4095

\* Significand width of a C float.
FLT_MANT_DIG == 24

(***************************************************************************)
(* Single-precision arithmetic.                                            *)
(***************************************************************************)
Pow2(k) == 2 ^ k

Abs(n) == IF n < 0 THEN -n ELSE n

RECURSIVE BitLen(_)
BitLen(n) == IF n = 0 THEN 0 ELSE 1 + BitLen(n \div 2)

\* num / den rounded to the nearest integer, ties to even (num >= 0, den > 0).
RoundNE(num, den) ==
    LET q == num \div den
        r == num % den
    IN  IF 2 * r > den \/ (2 * r = den /\ q % 2 = 1) THEN q + 1 ELSE q

\* A non-negative integer rounded to a float: 24 significant bits.
Round24(n) ==
    IF BitLen(n) <= FLT_MANT_DIG THEN n
    ELSE LET u == Pow2(BitLen(n) - FLT_MANT_DIG) IN RoundNE(n, u) * u

\* Digit-by-digit square root of the integer N: <<r, R>> with r = floor(sqrt N)
\* and R = N - r*r.  sh is the position of the next pair of bits of N.
RECURSIVE SqrtInt(_, _, _, _)
SqrtInt(N, sh, r, R) ==
    IF sh < 0 THEN <<r, R>>
    ELSE LET t == 4 * R + ((N \div Pow2(sh)) % 4)
         IN  IF t >= 4 * r + 1
             THEN SqrtInt(N, sh - 2, 2 * r + 1, t - (4 * r + 1))
             ELSE SqrtInt(N, sh - 2, 2 * r, t)

\* The recurrence continued below the binary point until the root has 25
\* bits: <<r, R, k>>, the root being r / 2^k.
RECURSIVE SqrtFrac(_, _, _)
SqrtFrac(r, R, k) ==
    IF r >= Pow2(FLT_MANT_DIG) THEN <<r, R, k>>
    ELSE LET t == 4 * R
         IN  IF t >= 4 * r + 1
             THEN SqrtFrac(2 * r + 1, t - (4 * r + 1), k + 1)
             ELSE SqrtFrac(2 * r, t, k + 1)

\* sqrtf of a positive float with an integer value S: <<m, k>>, the float
\* m / 2^k nearest to the square root.
SqrtF(S) ==
    LET ir == SqrtInt(S, 2 * ((BitLen(S) + 1) \div 2) - 2, 0, 0)
        fr == SqrtFrac(ir[1], ir[2], 0)
        m0 == fr[1] \div 2
        up == fr[1] % 2 = 1 /\ (fr[2] > 0 \/ m0 % 2 = 1)
    IN  <<IF up THEN m0 + 1 ELSE m0, fr[3] - 1>>

\* The least j with (n * 2^j) \div d >= 2^23: the scaling that leaves a
\* quotient of 24 significant bits.
RECURSIVE QuotShift(_, _, _)
QuotShift(n, d, j) ==
    IF (n * Pow2(j)) \div d >= Pow2(FLT_MANT_DIG - 1) THEN j
    ELSE QuotShift(n, d, j + 1)

\* The float quotient of the positive float m / 2^k by the positive integer
\* d: <<q, e>>, the float q / 2^e.
DivF(m, k, d) ==
    LET j == QuotShift(m, d, 0)
    IN  <<RoundNE(m * Pow2(j), d), k + j>>

\* ceilf of the positive float q / 2^e.
CeilF(q, e) ==
    (q \div Pow2(e)) + (IF q % Pow2(e) = 0 THEN 0 ELSE 1)

\* Lines 169-174: num_segments for a move of (x_length, y_length) with the
\* given divider.
NumSegments(x_length, y_length, div) ==
    LET S == Round24(Round24(x_length * x_length) + Round24(y_length * y_length))
    IN  IF S = 0 THEN 0
        ELSE LET v == SqrtF(S)
                 q == DivF(v[1], v[2], div)
             IN  CeilF(q[1], q[2])

\* (int) of the float nearest to M + G / 2^g, where M >= 0 and 0 <= G < 2^g.
TruncSum(M, G, g) ==
    IF M = 0
    THEN IF BitLen(G) <= FLT_MANT_DIG THEN 0
         ELSE LET sh == BitLen(G) - FLT_MANT_DIG
              IN  IF RoundNE(G, Pow2(sh)) = Pow2(FLT_MANT_DIG) /\ BitLen(G) = g
                  THEN 1 ELSE 0
    ELSE LET p == FLT_MANT_DIG - BitLen(M)
         IN  IF g <= p THEN M
             ELSE IF RoundNE(G, Pow2(g - p)) = Pow2(p) THEN M + 1 ELSE M

\* Lines 178-179: (int)(start + (length / (float)num_segments) * i), every
\* operation in float, the conversion to int truncating towards zero.
InterpCoord(start, length, num_segments, i) ==
    IF length = 0 THEN start
    ELSE LET a  == DivF(Abs(length), 0, num_segments)  \* length / num_segments
             b  == Round24(a[1] * i)                   \* ... * i, over 2^g
             g  == a[2]
             bi == b \div Pow2(g)
             bf == b % Pow2(g)
             \* start + b = I + F / 2^g with 0 <= F < 2^g
             I  == IF length > 0 THEN start + bi
                   ELSE IF bf = 0 THEN start - bi ELSE start - bi - 1
             F  == IF length > 0 \/ bf = 0 THEN bf ELSE Pow2(g) - bf
         IN  IF I >= 0 THEN TruncSum(I, F, g)
             ELSE IF F = 0 THEN I
             ELSE -TruncSum(-I - 1, Pow2(g) - F, g)

(***************************************************************************)
(* Program state.                                                          *)
(***************************************************************************)
VARIABLES
    vector_list,    \* line 47: the points of the frame, entries 0 .. num_points-1
    num_points,     \* line 48
    x_start,        \* line 49: pen position
    y_start,        \* line 50
    xpos, ypos,     \* lines 53, 56: layout origin
    size,           \* line 60
    color,          \* line 63
    divider,        \* line 72
    dwell,          \* line 76
    hidden_dwell,   \* line 80
    pc,             \* position of main()
    now,            \* the wall clock, in seconds of the day
    autoTick,       \* TRUE: the clock advances one second on every read
    ticks,          \* seconds the clock has advanced
    tm,             \* lines 369, 394: the broken-down time last read
    seconds,        \* line 390: the second the current frame was built for
    devStatus,      \* line 395: the value of the last GetStatus poll
    sched,          \* history of the scheduler (see SchedInit)
    last,           \* history: the last drawing call, its arguments and results
    ops             \* drawing calls made on the current frame

config == <<xpos, ypos, size, color, divider, dwell, hidden_dwell>>
buffer == <<vector_list, num_points, x_start, y_start>>
mainv  == <<pc, now, autoTick, ticks, tm, seconds, devStatus, sched>>
vars   == <<buffer, config, mainv, last, ops>>

\* Lines 339-355: the configurations the command line may set.  The first
\* is the default layout scaled to the model's buffer; the second places
\* the clock face against the edge of the device range, with a digit size
\* whose markers have size 0.
Configs ==
    { [xpos |-> 100,  ypos |-> 2000, size |-> 20, color |-> 1,
       divider |-> 50, dwell |-> 1, hidden_dwell |-> 2],
      [xpos |-> 4085, ypos |-> 8,    size |-> 5,  color |-> 2,
       divider |-> 50, dwell |-> 2, hidden_dwell |-> 1] }

(***************************************************************************)
(* Point Buffer: DrawPoint (lines 82-161).                                 *)
(* The drawing functions are operators on the record of the globals they   *)
(* read and write; `ret` is the value DrawPoint returned, `clip` counts    *)
(* the clipping warnings written to stderr, `mid` is num_points after the  *)
(* interpolation loop of the last DrawLineTo.                              *)
(***************************************************************************)
Globals ==
    [vector_list |-> vector_list, num_points |-> num_points,
     x_start |-> x_start, y_start |-> y_start,
     ret |-> 0, clip |-> 0, mid |-> num_points]

\* Lines 105-151.
RGB(c) ==
    CASE c = 0 -> <<0, 0, 0>>
      [] c = 1 -> <<255, 0, 0>>
      [] c = 2 -> <<0, 255, 0>>
      [] c = 3 -> <<0, 0, 255>>
      [] c = 4 -> <<255, 255, 0>>
      [] c = 5 -> <<255, 0, 255>>
      [] c = 6 -> <<0, 255, 255>>
      [] c = 7 -> <<255, 255, 255>>
      [] OTHER -> <<255, 255, 255>>

\* Lines 91-103, one coordinate.
Clip(v) == IF v > COORD_MAX THEN COORD_MAX ELSE IF v < 0 THEN 0 ELSE v

\* Lines 91-92 and 98-99: the warnings one call prints.
ClipWarnings(x, y) ==
    (IF x > COORD_MAX THEN 1 ELSE 0) + (IF y > COORD_MAX THEN 1 ELSE 0)

\* A faulty DrawPoint, for sensitivity checks: the capacity test of line 85
\* is off by one (> for >=).
DrawPoint_OffByOne(s, x, y, c) ==
    IF s.num_points > MAX_POINTS
    THEN [s EXCEPT !.ret = 0]
    ELSE [s EXCEPT
            !.vector_list = Append(@, [x |-> Clip(x), y |-> Clip(y),
                                       r |-> RGB(c)[1], g |-> RGB(c)[2],
                                       b |-> RGB(c)[3], i |-> 255]),
            !.num_points = @ + 1,
            !.ret = s.num_points,
            !.clip = @ + ClipWarnings(x, y)]

\* Lines 82-161.
DrawPoint(s, x, y, c) ==
    IF s.num_points >= MAX_POINTS
    THEN [s EXCEPT !.ret = 0]
    ELSE [s EXCEPT
            !.vector_list = Append(@, [x |-> Clip(x), y |-> Clip(y),
                                       r |-> RGB(c)[1], g |-> RGB(c)[2],
                                       b |-> RGB(c)[3], i |-> 255]),
            !.num_points = @ + 1,
            !.ret = s.num_points,
            !.clip = @ + ClipWarnings(x, y)]

(***************************************************************************)
(* Path Interpolator: DrawLineTo (lines 164-199).                          *)
(* Only({F(t) : t \in {e}}) is F(e) with e evaluated once.                 *)
(***************************************************************************)
Only(S) == CHOOSE v \in S : TRUE

\* Lines 177-181: the iterations i = lo .. hi of the interpolation loop, in
\* order (the range is halved so that a long move does not nest deeply).
RECURSIVE Interpolate(_, _, _, _, _, _, _)
Interpolate(s, x, y, c, num_segments, lo, hi) ==
    IF lo > hi THEN s
    ELSE IF lo = hi
    THEN DrawPoint(s, InterpCoord(s.x_start, x - s.x_start, num_segments, lo),
                      InterpCoord(s.y_start, y - s.y_start, num_segments, lo), c)
    ELSE Only({ Interpolate(t, x, y, c, num_segments, (lo + hi) \div 2 + 1, hi) :
                t \in {Interpolate(s, x, y, c, num_segments, lo, (lo + hi) \div 2)} })

\* Lines 187-188 and 190-191: k points at the end point.
RECURSIVE Dwell(_, _, _, _, _)
Dwell(s, x, y, c, k) ==
    IF k <= 0 THEN s
    ELSE Only({ Dwell(t, x, y, c, k - 1) : t \in {DrawPoint(s, x, y, c)} })

\* A faulty interpolation, for sensitivity checks: at least one segment,
\* whatever the length of the move.
InterpolateLine_AtLeastOne(s, x, y, c) ==
    IF c > 0
    THEN Only({ Interpolate(s, x, y, c, num_segments, 1, num_segments) :
                num_segments \in {IF NumSegments(x - s.x_start, y - s.y_start, divider) < 1
                                  THEN 1
                                  ELSE NumSegments(x - s.x_start, y - s.y_start, divider)} })
    ELSE s

\* A faulty interpolation, for sensitivity checks: blank moves are
\* interpolated as visible ones are.
InterpolateLine_Blank(s, x, y, c) ==
    Only({ Interpolate(s, x, y, c, num_segments, 1, num_segments) :
           num_segments \in {NumSegments(x - s.x_start, y - s.y_start, divider)} })

\* Lines 176-182.
InterpolateLine(s, x, y, c) ==
    IF c > 0
    THEN Only({ Interpolate(s, x, y, c, num_segments, 1, num_segments) :
                num_segments \in {NumSegments(x - s.x_start, y - s.y_start, divider)} })
    ELSE s

\* A faulty dwell, for sensitivity checks: the two dwell counts are swapped.
DwellAtEnd_Swapped(s, x, y, c) ==
    IF c = 0 THEN Dwell(s, x, y, c, dwell) ELSE Dwell(s, x, y, c, hidden_dwell)

\* Lines 186-192.
DwellAtEnd(s, x, y, c) ==
    IF c = 0 THEN Dwell(s, x, y, c, hidden_dwell) ELSE Dwell(s, x, y, c, dwell)

DrawLineTo(s, x, y, c) ==
    Only({ Only({ [s2 EXCEPT !.x_start = x, !.y_start = y,
                             !.mid = s1.num_points] :
                  s2 \in {DwellAtEnd(s1, x, y, c)} }) :
           s1 \in {InterpolateLine([s EXCEPT !.ret = 0], x, y, c)} })

(***************************************************************************)
(* Glyph Library (lines 201-321).  c is the colour, sz the digit size.     *)
(***************************************************************************)
\* A glyph's DrawLineTo calls, in order: each move is <<x, y, colour>>.
RECURSIVE DrawMoves(_, _)
DrawMoves(s, moves) ==
    IF moves = <<>> THEN s
    ELSE Only({ DrawMoves(t, Tail(moves)) :
                t \in {DrawLineTo(s, Head(moves)[1], Head(moves)[2], Head(moves)[3])} })

\* Lines 201-208.
DrawZero(s, x, y, c, sz) ==
    DrawMoves(s, <<<<x, y, 0>>,
                   <<x + sz, y, c>>,
                   <<x + sz, y - 2 * sz, c>>,
                   <<x, y - 2 * sz, c>>,
                   <<x, y, c>>>>)

\* Lines 209-214.
DrawOne(s, x, y, c, sz) ==
    DrawMoves(s, <<<<x + sz, y, 0>>,
                   <<x + sz, y, 0>>,
                   <<x + sz, y - 2 * sz, c>>>>)

\* Lines 215-225.
DrawTwo(s, x, y, c, sz) ==
    DrawMoves(s, <<<<x, y, 0>>,
                   <<x + sz, y, c>>,
                   <<x + sz, y - sz, c>>,
                   <<x, y - sz, c>>,
                   <<x, y - 2 * sz, c>>,
                   <<x + sz, y - 2 * sz, c>>>>)

\* Lines 226-235.
DrawThree(s, x, y, c, sz) ==
    DrawMoves(s, <<<<x, y, 0>>,
                   <<x + sz, y, c>>,
                   <<x + sz, y - 2 * sz, c>>,
                   <<x, y - 2 * sz, c>>,
                   <<x, y - sz, 0>>,
                   <<x + sz, y - sz, c>>>>)

\* Lines 236-244.
DrawFour(s, x, y, c, sz) ==
    DrawMoves(s, <<<<x, y, 0>>,
                   <<x, y - sz, c>>,
                   <<x + sz, y - sz, c>>,
                   <<x + sz, y, 0>>,
                   <<x + sz, y - 2 * sz, c>>>>)

\* Lines 245-254.
DrawFive(s, x, y, c, sz) ==
    DrawMoves(s, <<<<x + sz, y, 0>>,
                   <<x, y, c>>,
                   <<x, y - sz, c>>,
                   <<x + sz, y - sz, c>>,
                   <<x + sz, y - 2 * sz, c>>,
                   <<x, y - 2 * sz, c>>>>)

\* Lines 255-263.
DrawSix(s, x, y, c, sz) ==
    DrawMoves(s, <<<<x + sz, y, 0>>,
                   <<x, y, c>>,
                   <<x, y - 2 * sz, c>>,
                   <<x + sz, y - 2 * sz, c>>,
                   <<x + sz, y - sz, c>>,
                   <<x, y - sz, c>>>>)

\* Lines 264-269.
DrawSeven(s, x, y, c, sz) ==
    DrawMoves(s, <<<<x, y, 0>>,
                   <<x + sz, y, c>>,
                   <<x + sz, y - 2 * sz, c>>>>)

\* Lines 270-279.
DrawEight(s, x, y, c, sz) ==
    DrawMoves(s, <<<<x, y, 0>>,
                   <<x + sz, y, c>>,
                   <<x + sz, y - 2 * sz, c>>,
                   <<x, y - 2 * sz, c>>,
                   <<x, y, c>>,
                   <<x, y - sz, 0>>,
                   <<x + sz, y - sz, c>>>>)

\* Lines 280-287.
DrawNine(s, x, y, c, sz) ==
    DrawMoves(s, <<<<x + sz, y - 2 * sz, 0>>,
                   <<x + sz, y, c>>,
                   <<x, y, c>>,
                   <<x, y - sz, c>>,
                   <<x + sz, y - sz, c>>>>)

\* Lines 289-306.
DrawDigit(s, n, x, y, c, sz) ==
    CASE n = 0 -> DrawZero(s, x, y, c, sz)
      [] n = 1 -> DrawOne(s, x, y, c, sz)
      [] n = 2 -> DrawTwo(s, x, y, c, sz)
      [] n = 3 -> DrawThree(s, x, y, c, sz)
      [] n = 4 -> DrawFour(s, x, y, c, sz)
      [] n = 5 -> DrawFive(s, x, y, c, sz)
      [] n = 6 -> DrawSix(s, x, y, c, sz)
      [] n = 7 -> DrawSeven(s, x, y, c, sz)
      [] n = 8 -> DrawEight(s, x, y, c, sz)
      [] n = 9 -> DrawNine(s, x, y, c, sz)
      [] OTHER -> s

\* Lines 310-321.  The sizes are not negative, so C's / is \div.
DrawSquare(s, x, y, c, sz) ==
    LET offset == sz \div 2
    IN  DrawMoves(s, <<<<x - offset, y - offset, 0>>,
                       <<x - offset + sz, y - offset, c>>,
                       <<x - offset + sz, y - offset + sz, c>>,
                       <<x - offset, y - offset + sz, c>>,
                       <<x - offset, y - offset, c>>>>)

(***************************************************************************)
(* Clock-Face Composer (lines 373-386).                                    *)
(***************************************************************************)
\* Line 369: localtime of a time of the day.
LocalTime(t) ==
    [tm_hour |-> (t \div 3600) % 24, tm_min |-> (t \div 60) % 60, tm_sec |-> t % 60]

\* A faulty clear, for sensitivity checks: the pen goes back to the origin.
ClearBuffer_ResetPen(s) ==
    [s EXCEPT !.vector_list = <<>>, !.num_points = 0, !.mid = 0,
              !.x_start = 0, !.y_start = 0]

\* Lines 370-371: the buffer is emptied; the pen is not touched.
ClearBuffer(s) ==
    [s EXCEPT !.vector_list = <<>>, !.num_points = 0, !.mid = 0]

\* The drawing calls of lines 373-386, in order: <<"digit", n, x, y>> is
\* DrawDigit(n, x, y, color, size) and <<"square", sz, x, y>> is
\* DrawSquare(x, y, color, sz).  (int)(3.5 * size) is (7 * size) \div 2 and
\* (int)(7.5 * size) is (15 * size) \div 2 for the sizes of Configs.
FrameCalls(t) ==
    << <<"digit", t.tm_hour \div 10, xpos, ypos>>,
       <<"digit", t.tm_hour % 10, xpos + 2 * size, ypos>>,
       <<"digit", t.tm_min \div 10, xpos + 4 * size, ypos>>,
       <<"digit", t.tm_min % 10, xpos + 6 * size, ypos>>,
       <<"digit", t.tm_sec \div 10, xpos + 8 * size, ypos>>,
       <<"digit", t.tm_sec % 10, xpos + 10 * size, ypos>>,
       <<"square", size \div 10, xpos + (7 * size) \div 2, ypos - size \div 2>>,
       <<"square", size \div 10, xpos + (7 * size) \div 2, (ypos - size \div 2) - size>>,
       <<"square", size \div 10, xpos + (15 * size) \div 2, ypos - size \div 2>>,
       <<"square", size \div 10, xpos + (15 * size) \div 2, (ypos - size \div 2) - size>> >>

RECURSIVE DrawCalls(_, _)
DrawCalls(s, calls) ==
    IF calls = <<>> THEN s
    ELSE LET k == Head(calls)
         IN  Only({ DrawCalls(t, Tail(calls)) :
                    t \in {IF k[1] = "digit"
                           THEN DrawDigit(s, k[2], k[3], k[4], color, size)
                           ELSE DrawSquare(s, k[3], k[4], color, k[2])} })

ComposeFrame(s, t) == DrawCalls(s, FrameCalls(t))

(***************************************************************************)
(* Initial state: the static initialisers of lines 47-50 and the           *)
(* configuration left by the argument loop of lines 339-355.               *)
(***************************************************************************)
NoCall ==
    [op |-> "none", x |-> 0, y |-> 0, c |-> 0, n |-> 0, np0 |-> 0,
     xs0 |-> 0, ys0 |-> 0, ret |-> 0, clip |-> 0, mid |-> 0]

\* History of the scheduler: frames built (saturating), the second of the
\* previous frame (-1: none), writes of the current frame issued while the
\* second last read was the frame's (timely) and after it had changed
\* (stale), busy polls since the last write, all writes, the last step of
\* main, and the step, the poll result and the busy polls that preceded the
\* last WriteFrame.
SchedInit ==
    [built |-> 0, prev |-> -1, timely |-> 0, stale |-> 0, busy |-> 0,
     writes |-> 0, lastOp |-> "none", wprev |-> "none", wstatus |-> 0,
     wbusy |-> 0]

InitGlobals ==
    /\ vector_list = <<>>
    /\ num_points = 0
    /\ x_start = 0
    /\ y_start = 0

InitConfig ==
    \E k \in Configs :
        /\ xpos = k.xpos /\ ypos = k.ypos /\ size = k.size /\ color = k.color
        /\ divider = k.divider /\ dwell = k.dwell
        /\ hidden_dwell = k.hidden_dwell

\* Times of the day at which the program is started: 03:05:09 and 23:59:58.
StartTimes == {11109, 86398}

\* Values GetStatus returns: 0 busy, 1 ready (spec.md, section 6).
StatusValues == {0, 1}

InitMain ==
    /\ pc = "start"
    /\ now \in StartTimes
    /\ autoTick \in BOOLEAN
    /\ ticks = 0
    /\ tm = LocalTime(0)
    /\ seconds = 0
    /\ devStatus = 0
    /\ sched = SchedInit

Init ==
    /\ InitGlobals /\ InitConfig /\ InitMain
    /\ last = NoCall /\ ops = 0

Sat(n) == IF n < MaxCount THEN n + 1 ELSE n

SetGlobals(g) ==
    /\ vector_list' = g.vector_list
    /\ num_points' = g.num_points
    /\ x_start' = g.x_start
    /\ y_start' = g.y_start

(***************************************************************************)
(* Refresh Scheduler: main (lines 357-398).                                *)
(***************************************************************************)
Step(op) == [sched EXCEPT !.lastOp = op]

\* time(NULL) of lines 368 and 393: the clock read, and the clock after it.
ClockCanBeRead == autoTick => ticks < MaxTicks
TimeRead == IF autoTick THEN (now + 1) % 86400 ELSE now
TicksRead == IF autoTick THEN ticks + 1 ELSE ticks

\* Lines 358-364.
OpenDevices ==
    /\ pc = "start"
    /\ \E numDevs \in {0, 1} :
          pc' = IF numDevs < 1 THEN "exit" ELSE "L368"
    /\ sched' = Step("OpenDevices")
    /\ UNCHANGED <<buffer, config, now, autoTick, ticks, tm, seconds,
                   devStatus, last, ops>>

\* Lines 368-390: the clock is read, the buffer cleared, the frame composed
\* and its second recorded.
Regenerate ==
    /\ pc = "L368"
    /\ ClockCanBeRead
    /\ now' = TimeRead
    /\ ticks' = TicksRead
    /\ tm' = LocalTime(TimeRead)
    /\ SetGlobals(ComposeFrame(ClearBuffer(Globals), LocalTime(TimeRead)))
    /\ seconds' = LocalTime(TimeRead).tm_sec
    /\ pc' = "L391"
    /\ sched' = [Step("Regenerate") EXCEPT
                    !.built = Sat(@),
                    !.prev = IF sched.built = 0 THEN -1 ELSE seconds,
                    !.timely = 0, !.stale = 0]
    /\ UNCHANGED <<config, autoTick, devStatus, last, ops>>

\* Line 391: the test of the inner loop.
LoopTest ==
    /\ pc = "L391"
    /\ pc' = IF tm.tm_sec = seconds THEN "L393" ELSE "L368"
    /\ sched' = Step("LoopTest")
    /\ UNCHANGED <<buffer, config, now, autoTick, ticks, tm, seconds,
                   devStatus, last, ops>>

\* Lines 393-394.
ReadClock ==
    /\ pc = "L393"
    /\ ClockCanBeRead
    /\ now' = TimeRead
    /\ ticks' = TicksRead
    /\ tm' = LocalTime(TimeRead)
    /\ pc' = "L395"
    /\ sched' = Step("ReadClock")
    /\ UNCHANGED <<buffer, config, autoTick, seconds, devStatus, last, ops>>

\* A faulty poll, for sensitivity checks: main goes on to the write whatever
\* the device answered.
GetStatus_NoWait ==
    /\ pc = "L395"
    /\ \E r \in StatusValues :
          /\ devStatus' = r
          /\ pc' = "L396"
          /\ sched' = [Step("GetStatus") EXCEPT
                          !.busy = IF r = 0 THEN Sat(@) ELSE @]
    /\ UNCHANGED <<buffer, config, now, autoTick, ticks, tm, seconds, last, ops>>

\* Line 395: one poll of while(helios.GetStatus(0) == 0);
GetStatus ==
    /\ pc = "L395"
    /\ \E r \in StatusValues :
          /\ devStatus' = r
          /\ pc' = IF r = 0 THEN "L395" ELSE "L396"
          /\ sched' = [Step("GetStatus") EXCEPT
                          !.busy = IF r = 0 THEN Sat(@) ELSE @]
    /\ UNCHANGED <<buffer, config, now, autoTick, ticks, tm, seconds, last, ops>>

\* Line 396: the frame is handed to the device.
WriteFrame ==
    /\ pc = "L396"
    /\ pc' = "L391"
    /\ sched' = [Step("WriteFrame") EXCEPT
                    !.writes = Sat(@),
                    !.timely = IF tm.tm_sec = seconds THEN Sat(@) ELSE @,
                    !.stale = IF tm.tm_sec = seconds THEN @ ELSE Sat(@),
                    !.busy = 0,
                    !.wbusy = sched.busy,
                    !.wprev = sched.lastOp,
                    !.wstatus = devStatus]
    /\ UNCHANGED <<buffer, config, now, autoTick, ticks, tm, seconds,
                   devStatus, last, ops>>

\* The wall clock passes to the next second (a clock that does not advance
\* on its reads).
Tick ==
    /\ ~autoTick
    /\ ticks < MaxTicks
    /\ now' = (now + 1) % 86400
    /\ ticks' = ticks + 1
    /\ UNCHANGED <<buffer, config, pc, autoTick, tm, seconds, devStatus,
                   sched, last, ops>>

Next ==
    \/ OpenDevices
    \/ Regenerate
    \/ LoopTest
    \/ ReadClock
    \/ GetStatus
    \/ WriteFrame
    \/ Tick

Spec == Init /\ [][Next]_vars

(***************************************************************************)
(* The drawing functions called in any order, as a caller of the Point     *)
(* Buffer, the Path Interpolator and the Glyph Library may: MaxOps calls   *)
(* on a frame, then the clear of lines 370-371.                            *)
(***************************************************************************)
\* Arguments <<x, y, color>> of direct DrawPoint calls: in range, negative,
\* beyond the range in one axis and in both.
PointArgs ==
    { <<100, 2000, 1>>, <<-3, 2000, 0>>, <<4200, 100, 9>>, <<4096, 5000, 3>> }

\* Destinations of direct DrawLineTo calls: the initial pen position, a
\* move of 7 segments, a move longer than the buffer, a move of 12 segments
\* to a negative abscissa.
LineDests == { <<0, 0>>, <<31, 299>>, <<4200, 100>>, <<-40, 598>> }

\* 0 is blank; 1 is red.
LineColors == {0, 1}

InitDraw ==
    /\ InitGlobals /\ InitConfig
    /\ pc = "start" /\ now = 0 /\ autoTick = FALSE /\ ticks = 0
    /\ tm = LocalTime(0) /\ seconds = 0 /\ devStatus = 0 /\ sched = SchedInit
    /\ last = NoCall /\ ops = 0

\* What `last` records of a call: its arguments, the buffer length and the
\* pen before it, and the results in g.
Call(op, x, y, c, n, g) ==
    [op |-> op, x |-> x, y |-> y, c |-> c, n |-> n, np0 |-> num_points,
     xs0 |-> x_start, ys0 |-> y_start, ret |-> g.ret, clip |-> g.clip,
     mid |-> g.mid]

Does(op, x, y, c, n, g) ==
    /\ ops < MaxOps
    /\ SetGlobals(g)
    /\ last' = Call(op, x, y, c, n, g)
    /\ ops' = ops + 1
    /\ UNCHANGED <<config, mainv>>

CallDrawPoint ==
    \E a \in PointArgs :
        Does("DrawPoint", a[1], a[2], a[3], 0,
             DrawPoint(Globals, a[1], a[2], a[3]))

CallDrawLineTo ==
    \E d \in LineDests, c \in LineColors :
        Does("DrawLineTo", d[1], d[2], c, 0,
             DrawLineTo(Globals, d[1], d[2], c))

CallDrawDigit ==
    \E n \in 0 .. 9 :
        Does("DrawDigit", xpos, ypos, color, n,
             DrawDigit(Globals, n, xpos, ypos, color, size))

CallDrawSquare ==
    Does("DrawSquare", xpos, ypos, color, 0,
         DrawSquare(Globals, xpos, ypos, color, size \div 10))

\* Lines 370-371: num_points = MAX_POINTS; num_points = 0.
Clear ==
    /\ ops > 0
    /\ SetGlobals(ClearBuffer(Globals))
    /\ last' = Call("Clear", 0, 0, 0, 0, ClearBuffer(Globals))
    /\ ops' = 0
    /\ UNCHANGED <<config, mainv>>

NextDraw ==
    \/ CallDrawPoint
    \/ CallDrawLineTo
    \/ CallDrawDigit
    \/ CallDrawSquare
    \/ Clear

SpecDraw == InitDraw /\ [][NextDraw]_vars

(***************************************************************************)
(* Properties.                                                             *)
(***************************************************************************)
Min(a, b) == IF a < b THEN a ELSE b

\* The points the last call appended.
Appended == SubSeq(vector_list, last.np0 + 1, num_points)

\* ceil(sqrt(S) / div) in exact integer arithmetic: the least n with
\* (n * div)^2 >= S.
ExactCeil(S, div) ==
    CHOOSE n \in 0 .. 128 :
        /\ n * n * div * div >= S
        /\ n > 0 => (n - 1) * (n - 1) * div * div < S

\* The squared length of the last pen move.
MoveSq ==
    (last.x - last.xs0) * (last.x - last.xs0)
        + (last.y - last.ys0) * (last.y - last.ys0)

\* The number of points the interpolation loop of the last pen move stored.
Interpolated == last.mid - last.np0

\* C1: in every reachable state num_points lies in 0 .. MAX_POINTS, the
\* buffer holds exactly num_points points, and the index a call last wrote
\* (the value DrawPoint returned) is below the capacity.
C1_BufferBounded ==
    /\ num_points >= 0
    /\ num_points <= MAX_POINTS
    /\ Len(vector_list) = num_points
    /\ last.ret < MAX_POINTS

\* C1 witness: a drawing call was made on a buffer that was already full.
C1_Witness ==
    /\ last.op \in {"DrawPoint", "DrawLineTo", "DrawDigit", "DrawSquare"}
    /\ last.np0 = MAX_POINTS
    /\ num_points = MAX_POINTS

\* What DrawPoint returns when the buffer is full (line 87).
FullResult == DrawPoint([Globals EXCEPT !.num_points = MAX_POINTS], 0, 0, 0).ret

\* C2: an append on a full buffer leaves the buffer as it was, and the value
\* it reports differs from the index every successful append returns.
C2_FullDistinguishable ==
    last.op = "DrawPoint" =>
        IF last.np0 >= MAX_POINTS
        THEN num_points = last.np0 /\ last.ret = FullResult
        ELSE num_points = last.np0 + 1 /\ last.ret # FullResult

\* Whether the last call was a visible pen move with room in the buffer for
\* every interpolated point.
VisibleMoveWithRoom ==
    /\ last.op = "DrawLineTo"
    /\ last.c > 0
    /\ last.np0 + ExactCeil(MoveSq, divider) <= MAX_POINTS

\* Whether point p is within one unit of (x, y) clipped to the device range.
Near(p, x, y) ==
    /\ Abs(p.x - Clip(x)) <= 1
    /\ Abs(p.y - Clip(y)) <= 1

\* C3 as stated: a visible pen move emits max(1, ceil(distance / divider))
\* interpolated points, the last of them at the destination.
C3_Original ==
    VisibleMoveWithRoom =>
        /\ Interpolated = IF MoveSq = 0 THEN 1 ELSE ExactCeil(MoveSq, divider)
        /\ Interpolated > 0
        /\ vector_list[last.mid].x = Clip(last.x)
        /\ vector_list[last.mid].y = Clip(last.y)

\* C3 amended: a visible pen move of at most 4096 units made with room in
\* the buffer emits exactly ceil(distance / divider) interpolated points,
\* none for a move of length zero, and the last of them lies within one
\* unit of the (clipped) destination in each coordinate.
C3_Interpolation ==
    VisibleMoveWithRoom /\ MoveSq <= Pow2(FLT_MANT_DIG) =>
        /\ Interpolated = ExactCeil(MoveSq, divider)
        /\ MoveSq = 0 => Interpolated = 0
        /\ Interpolated > 0 => Near(vector_list[last.mid], last.x, last.y)

\* C3 witness: a visible move of several segments whose last interpolated
\* point is not the destination.
C3_Witness ==
    /\ VisibleMoveWithRoom
    /\ Interpolated > 1
    /\ Interpolated = ExactCeil(MoveSq, divider)
    /\ vector_list[last.mid].x # last.x
    /\ last.x = Clip(last.x)

\* The dwell count of the last pen move (lines 186-192).
DwellWanted == IF last.c = 0 THEN hidden_dwell ELSE dwell

\* Whether every point after the interpolated ones is at the (clipped)
\* destination of the last pen move.
DwellAtDestination ==
    \A k \in last.mid + 1 .. num_points :
        /\ vector_list[k].x = Clip(last.x)
        /\ vector_list[k].y = Clip(last.y)

\* C4 as stated: a blank move appends no interpolated point and exactly
\* hidden_dwell points at the destination, a visible move exactly dwell
\* points after the interpolated ones, whatever the fill level.
C4_Original ==
    last.op = "DrawLineTo" =>
        /\ last.c = 0 => Interpolated = 0
        /\ num_points - last.mid = DwellWanted
        /\ DwellAtDestination

\* C4 amended: a blank move appends no interpolated point; after the
\* interpolated points a move appends hidden_dwell (blank) or dwell
\* (visible) points at the clipped destination when the buffer has room for
\* them, and otherwise only as many as still fit.
C4_Dwell ==
    last.op = "DrawLineTo" =>
        /\ last.c = 0 => Interpolated = 0
        /\ num_points - last.mid = Min(DwellWanted, MAX_POINTS - last.mid)
        /\ DwellAtDestination

\* C4 witness: a pen move some of whose dwell points fitted and some did not.
C4_Witness ==
    /\ last.op = "DrawLineTo"
    /\ num_points - last.mid > 0
    /\ num_points - last.mid < DwellWanted

\* Whether a coordinate lies outside the device range.
OutOfRange(v) == v > COORD_MAX \/ v < 0

\* C5: a DrawPoint call that stores a point stores it clipped into
\* 0 .. COORD_MAX, and prints exactly one warning if a coordinate was out of
\* range (too large or negative, one axis or both) and none otherwise.
C5_ClipWarning ==
    last.op = "DrawPoint" /\ last.np0 < MAX_POINTS =>
        /\ vector_list[num_points].x = Clip(last.x)
        /\ vector_list[num_points].y = Clip(last.y)
        /\ last.clip = IF OutOfRange(last.x) \/ OutOfRange(last.y) THEN 1 ELSE 0

\* C6: with a clock that advances one second on every read, the frames are
\* built for consecutive seconds, and when a frame is replaced it has been
\* written at least once while the second last read was still its own.
C6_Cadence ==
    autoTick =>
        /\ sched.prev >= 0 => seconds = (sched.prev + 1) % 60
        /\ pc = "L368" /\ sched.built > 0 => sched.timely > 0

\* C7: WriteFrame is reached only straight from a GetStatus poll that
\* returned ready, and after a poll that returned busy main is at the poll
\* again: nothing but polls happens until the device is ready.
C7_PollBeforeWrite ==
    /\ pc = "L396" => sched.lastOp = "GetStatus" /\ devStatus # 0
    /\ sched.lastOp = "WriteFrame" =>
          sched.wprev = "GetStatus" /\ sched.wstatus # 0
    /\ sched.lastOp = "GetStatus" /\ devStatus = 0 => pc = "L395"
    /\ sched.busy > 0 => sched.lastOp = "GetStatus"

\* C7 witness: a frame was written after the device had reported busy.
C7_Witness ==
    /\ sched.lastOp = "WriteFrame"
    /\ sched.wbusy > 0
    /\ sched.wstatus = 1

\* The buffer DrawDigit leaves when called on an empty buffer with the pen
\* at p.
GlyphFrom(p, n, x, y, c, sz) ==
    DrawDigit([vector_list |-> <<>>, num_points |-> 0, x_start |-> p[1],
               y_start |-> p[2], ret |-> 0, clip |-> 0, mid |-> 0],
              n, x, y, c, sz).vector_list

\* C8: the points DrawDigit appends to an empty buffer are those it appends
\* from any other pen position.
C8_GlyphIndependent ==
    last.op = "DrawDigit" /\ last.np0 = 0 =>
        \A p \in LineDests :
            vector_list = GlyphFrom(p, last.n, last.x, last.y, last.c, size)

\* C8 witness: a digit drawn into a cleared buffer with the pen where the
\* digit itself leaves it, as when the digit is drawn twice in succession.
C8_Witness ==
    /\ last.op = "DrawDigit"
    /\ last.np0 = 0
    /\ num_points > 0
    /\ <<last.xs0, last.ys0>> = <<x_start, y_start>>
    /\ <<last.xs0, last.ys0>> \notin LineDests

\* C9: no frame is written once a clock read has returned a second other
\* than the one the frame was built for.
C9_NoStaleWrite == sched.stale = 0

\* C10: DrawLineTo leaves the pen at its destination, whatever became of
\* its points; DrawPoint and the clear of the buffer leave the pen where it
\* was.
C10_PenFrame ==
    /\ last.op = "DrawLineTo" => x_start = last.x /\ y_start = last.y
    /\ last.op \in {"DrawPoint", "Clear"} =>
          x_start = last.xs0 /\ y_start = last.ys0

\* C10 witness: a pen move all of whose points were dropped moved the pen.
C10_Witness ==
    /\ last.op = "DrawLineTo"
    /\ last.np0 = MAX_POINTS
    /\ <<x_start, y_start>> # <<last.xs0, last.ys0>>

====
